---- MODULE Spec2Model ----
(***************************************************************************)
(* Model of src/src/main.py: the recursive field filter filter_response,   *)
(* the token provider get_access_token, the resource fetchers get_patient  *)
(* and get_practitioner, and the command-line dispatcher.                  *)
(***************************************************************************)
EXTENDS Integers, Sequences, FiniteSets, TLC

(* ---------------------------------------------------------------------- *)
(* Nested values: decoded JSON.  A value is a record [kind, val]:          *)
(*   kind = "str":    val is the string, a sequence of characters          *)
(*   kind = "null", "int": val is <<>> or <<n>>                            *)
(*   kind = "list":   val is the sequence of elements                      *)
(*   kind = "dict":   val is the sequence of [key, value] entries in       *)
(*                    insertion order, keys distinct                       *)
(* ---------------------------------------------------------------------- *)
MaxNodes == 4

Keys == {"other", "link", "id"}

Str(s) == [kind |-> "str", val |-> s]
Num(n) == [kind |-> "int", val |-> <<n>>]
Null == [kind |-> "null", val |-> <<>>]
\* The scalars of the generated values: a string that spells a removable key.
Scalars == {Str(<<"link">>)}
List(s) == [kind |-> "list", val |-> s]
Dict(s) == [kind |-> "dict", val |-> s]
Entry(k, v) == [key |-> k, value |-> v]

\* The sequences of distinct keys of length n.
KeySeqs(n) == {ks \in [1..n -> Keys] : \A i, j \in 1..n : ks[i] = ks[j] => i = j}

\* ValuesOfSize(n): the values made of exactly n nodes (scalars and
\* containers each count one).  SeqsOfSize(n): the sequences of values whose
\* sizes add up to n.
RECURSIVE ValuesOfSize(_), SeqsOfSize(_)
SeqsOfSize(n) ==
  IF n = 0 THEN {<<>>}
  ELSE UNION {{<<v>> \o s : v \in ValuesOfSize(k), s \in SeqsOfSize(n - k)} : k \in 1..n}

ValuesOfSize(n) ==
  IF n = 1
  THEN Scalars \cup {List(<<>>), Dict(<<>>)}
  ELSE LET S == SeqsOfSize(n - 1)
       IN  {List(s) : s \in S}
           \cup UNION {{Dict([i \in 1..Len(s) |-> Entry(ks[i], s[i])]) : ks \in KeySeqs(Len(s))}
                        : s \in {t \in S : Len(t) <= Cardinality(Keys)}}

Values == UNION {ValuesOfSize(n) : n \in 1..MaxNodes}

(* filter_response with the dictionary case written as a loop that deletes *)
(* while it iterates: the entry after a deleted one is skipped unchecked.  *)
RECURSIVE SkipAfterDelete(_, _, _)
SkipAfterDelete(items, keys, skip) ==
  IF items = <<>> THEN <<>>
  ELSE IF skip THEN <<Head(items)>> \o SkipAfterDelete(Tail(items), keys, FALSE)
  ELSE IF Head(items).key \in keys THEN SkipAfterDelete(Tail(items), keys, TRUE)
  ELSE <<Head(items)>> \o SkipAfterDelete(Tail(items), keys, FALSE)

RECURSIVE filter_response_skipping(_, _)
filter_response_skipping(data, keys_to_remove) ==
  IF data.kind = "dict" THEN
    LET kept == SkipAfterDelete(data.val, keys_to_remove, FALSE)
    IN  Dict([i \in 1..Len(kept) |->
               Entry(kept[i].key, filter_response_skipping(kept[i].value, keys_to_remove))])
  ELSE IF data.kind = "list" THEN
    List([i \in 1..Len(data.val) |-> filter_response_skipping(data.val[i], keys_to_remove)])
  ELSE data

(* filter_response that filters a mapping's values but returns a sequence  *)
(* as it is, without descending into its elements.                         *)
RECURSIVE filter_response_shallow_lists(_, _)
filter_response_shallow_lists(data, keys_to_remove) ==
  IF data.kind = "dict" THEN
    LET kept == SelectSeq(data.val, LAMBDA e : e.key \notin keys_to_remove)
    IN  Dict([i \in 1..Len(kept) |->
               Entry(kept[i].key, filter_response_shallow_lists(kept[i].value, keys_to_remove))])
  ELSE data

RECURSIVE filter_response(_, _)
filter_response(data, keys_to_remove) ==
  IF data.kind = "dict" THEN
    LET kept == SelectSeq(data.val, LAMBDA e : e.key \notin keys_to_remove)
    IN  Dict([i \in 1..Len(kept) |->
               Entry(kept[i].key, filter_response(kept[i].value, keys_to_remove))])
  ELSE IF data.kind = "list" THEN
    List([i \in 1..Len(data.val) |-> filter_response(data.val[i], keys_to_remove)])
  ELSE data

(* ---------------------------------------------------------------------- *)
(* Python and library operations the program uses.                         *)
(* ---------------------------------------------------------------------- *)

\* The longest token string (access_token values and token file contents).
MaxTokLen == 2

\* None as the value of an optional string argument.
NoneStr == <<"<None>">>

\* Python truthiness of an optional string: `not s`.
Falsy(s) == s = NoneStr \/ s = <<>>

\* str.strip(): leading and trailing whitespace removed.
RECURSIVE LStrip(_)
LStrip(s) == IF s # <<>> /\ Head(s) = " " THEN LStrip(Tail(s)) ELSE s

RECURSIVE RStrip(_)
RStrip(s) ==
  IF s # <<>> /\ s[Len(s)] = " " THEN RStrip(SubSeq(s, 1, Len(s) - 1)) ELSE s

Strip(s) == RStrip(LStrip(s))

\* str(n) of a non-negative integer, digit by digit.
DigitChars == <<"0", "1", "2", "3", "4", "5", "6", "7", "8", "9">>

RECURSIVE IntToStr(_)
IntToStr(n) ==
  IF n < 10 THEN <<DigitChars[n + 1]>>
  ELSE IntToStr(n \div 10) \o <<DigitChars[(n % 10) + 1]>>

\* s.startswith("401")
StartsWith401(s) == Len(s) >= 3 /\ s[1] = "4" /\ s[2] = "0" /\ s[3] = "1"

\* `"401" in s` for a message s.
Contains401(s) ==
  \E i \in 1..(Len(s) - 2) : s[i] = "4" /\ s[i + 1] = "0" /\ s[i + 2] = "1"

NoExc == [type |-> "none", msg |-> <<>>]
Raise(t, m) == [type |-> t, msg |-> m]
Ok(v) == [exc |-> NoExc, val |-> v]
Failed(t, m) == [exc |-> Raise(t, m), val |-> Null]

\* v[name] for a string key.
GetKey(v, name) ==
  IF v.kind = "dict" THEN
    IF \E i \in 1..Len(v.val) : v.val[i].key = name
    THEN Ok(v.val[CHOOSE i \in 1..Len(v.val) : v.val[i].key = name].value)
    ELSE Failed("KeyError", <<"'", name, "'">>)
  ELSE Failed("TypeError", <<"indices must be integers or object is not subscriptable">>)

\* v[i] for a non-negative integer index (0-based).
GetIndex(v, i) ==
  IF v.kind = "list" THEN
    IF i < Len(v.val) THEN Ok(v.val[i + 1])
    ELSE Failed("IndexError", <<"list index out of range">>)
  ELSE IF v.kind = "str" THEN
    IF i < Len(v.val) THEN Ok(Str(<<v.val[i + 1]>>))
    ELSE Failed("IndexError", <<"string index out of range">>)
  ELSE IF v.kind = "dict" THEN Failed("KeyError", IntToStr(i))
  ELSE Failed("TypeError", <<"object is not subscriptable">>)

\* The fields of the Patient resource model (abridged), in schema order.
PatientFields == <<"id", "active", "name", "link">>

InSeq(x, s) == \E i \in 1..Len(s) : s[i] = x

\* Patient(**resource): the validated record, holding the fields given.
\* The resource must be a mapping; a resourceType other than Patient and a
\* field outside the schema are validation errors.
Patient(resource) ==
  IF resource.kind # "dict"
  THEN Failed("TypeError", <<"argument after ** must be a mapping">>)
  ELSE LET rt == GetKey(resource, "resourceType")
           fields == SelectSeq(resource.val, LAMBDA e : e.key # "resourceType")
       IN  IF rt.exc.type = "none" /\ rt.val # Str(<<"Patient">>)
           THEN Failed("ValidationError", <<"validation error for Patient">>)
           ELSE IF \E i \in 1..Len(fields) : ~InSeq(fields[i].key, PatientFields)
           THEN Failed("ValidationError", <<"validation error for Patient">>)
           ELSE Ok(Dict(fields))

\* patient_resource.model_dump(): the record as a mapping in schema order.
\* Whether unset fields are listed as null or left out depends on the
\* installed library and is taken as either.
model_dump(record, exclude_none) ==
  LET all == [i \in 1..Len(PatientFields) |->
               Entry(PatientFields[i],
                     IF GetKey(record, PatientFields[i]).exc.type = "none"
                     THEN GetKey(record, PatientFields[i]).val ELSE Null)]
  IN  Dict(IF exclude_none THEN SelectSeq(all, LAMBDA e : e.value # Null) ELSE all)

(* ---------------------------------------------------------------------- *)
(* State.                                                                  *)
(* ---------------------------------------------------------------------- *)
VARIABLES
  file,          \* access_token.txt: [state, text]
  fileAtStart,   \* access_token.txt when the run began
  entry,         \* what is run: "__main__" or a function called directly
  args,          \* the parsed command line / the call's arguments
  access_token,  \* the token read from the file or passed to the fetcher
  pc,            \* position of the run
  events,        \* file and network operations performed, in order
  requests,      \* HTTP requests issued, in order
  response,      \* the HTTP response received
  ret,           \* value returned by the function called
  exc,           \* exception raised and not yet handled
  out,           \* lines printed to standard output
  exitCode,      \* process exit status
  data, keys_to_remove, result, result2, fstage   \* filter_response applied alone

clivars == <<file, fileAtStart, entry, args, access_token, pc, events, requests,
             response, ret, exc, out, exitCode>>
fvars == <<data, keys_to_remove, result, result2, fstage>>
vars == <<clivars, fvars>>

(* ---------------------------------------------------------------------- *)
(* Inputs.                                                                 *)
(* ---------------------------------------------------------------------- *)
SeqsUpTo(S, n) == UNION {[1..m -> S] : m \in 0..n}

TokenStrings == SeqsUpTo({"a", "b", " "}, MaxTokLen)

Absent == [state |-> "absent", text |-> <<>>]
\* access_token.txt exists but cannot be opened (it is a directory).
Unopenable == [state |-> "directory", text |-> <<>>]
Text(s) == [state |-> "text", text |-> s]
FileStates == {Absent, Unopenable} \cup {Text(s) : s \in TokenStrings}

CredVals == {NoneStr, <<>>, <<"c">>}
NIKs == {<<"1", "2">>, <<"3", "4", "0", "1">>}

MainArgs ==
  {[command |-> "token", action |-> a, client_id |-> i, client_secret |-> c, nik |-> NoneStr]
     : a \in {"get", "update"}, i \in CredVals, c \in CredVals}
  \cup {[command |-> c, action |-> "", client_id |-> NoneStr, client_secret |-> NoneStr, nik |-> n]
     : c \in {"patient", "practitioner"}, n \in NIKs}
  \cup {[command |-> "none", action |-> "", client_id |-> NoneStr, client_secret |-> NoneStr,
         nik |-> NoneStr]}

CallArgs(f) ==
  IF f = "get_access_token"
  THEN {[command |-> "none", action |-> "", client_id |-> i, client_secret |-> c, nik |-> NoneStr]
          : i \in CredVals, c \in CredVals}
  ELSE {[command |-> "none", action |-> "", client_id |-> NoneStr, client_secret |-> NoneStr,
         nik |-> n] : n \in NIKs}

\* Response bodies of failed requests (response.text).
Texts == {<<>>, <<"x">>, <<"4", "0", "1">>, <<"x", "4", "0", "1", "x">>, <<"4", "0">>}
ErrorStatuses == {401, 404, 500}

NoResponse == [status_code |-> 0, text |-> <<>>, json_ok |-> FALSE, json |-> Null]
Response(st, t, ok, j) == [status_code |-> st, text |-> t, json_ok |-> ok, json |-> j]

\* Decoded bodies the token endpoint may answer with.
TokenBodies ==
  {Dict(<<Entry("access_token", Str(t)), Entry("expires_in", Num(3600))>>) : t \in TokenStrings}
  \cup {Dict(<<Entry("expires_in", Num(3600))>>), List(<<>>)}

\* Resources and search bundles the resource endpoints may answer with.
Res1 == Dict(<<Entry("resourceType", Str(<<"Patient">>)), Entry("id", Str(<<"1">>)),
               Entry("link", List(<<Dict(<<Entry("other", Dict(<<Entry("reference", Str(<<"Patient/2">>))>>)),
                                           Entry("type", Str(<<"seealso">>))>>)>>)),
               Entry("name", List(<<Dict(<<Entry("family", Str(<<"n">>))>>)>>))>>)
Res2 == Dict(<<Entry("id", Str(<<"2">>)), Entry("active", Str(<<"true">>))>>)
ResPractitioner == Dict(<<Entry("resourceType", Str(<<"Practitioner">>)), Entry("id", Str(<<"3">>))>>)
ResUnknownField == Dict(<<Entry("id", Str(<<"4">>)), Entry("bogus", Null)>>)

Bundle(rest) ==
  Dict(<<Entry("resourceType", Str(<<"Bundle">>)),
         Entry("link", List(<<Dict(<<Entry("relation", Str(<<"self">>))>>)>>))>> \o rest)
BundleOf(entries) == Bundle(<<Entry("entry", entries)>>)
Wrap(r) == Dict(<<Entry("fullUrl", Str(<<"u">>)), Entry("resource", r)>>)

ResourceBodies ==
  { BundleOf(List(<<Wrap(Res1)>>)),
    BundleOf(List(<<Wrap(Res1), Wrap(Res2)>>)),
    BundleOf(List(<<Wrap(Res2), Wrap(Res1)>>)),
    BundleOf(List(<<Wrap(ResPractitioner)>>)),
    BundleOf(List(<<Wrap(ResUnknownField), Wrap(Res1)>>)),
    BundleOf(List(<<Wrap(Null), Wrap(Res1)>>)),
    BundleOf(List(<<Dict(<<>>), Wrap(Res1)>>)),
    BundleOf(List(<<Null, Wrap(Res1)>>)),
    BundleOf(List(<<>>)),
    BundleOf(Null),
    BundleOf(Dict(<<>>)),
    BundleOf(Str(<<"x">>)),
    Bundle(<<>>),
    List(<<>>) }

(* ---------------------------------------------------------------------- *)
(* Runs.                                                                   *)
(* ---------------------------------------------------------------------- *)
Line(text, arg) == [text |-> text, arg |-> arg]

TokenBaseUrl == "https://api-satusehat-stg.dto.kemkes.go.id"
FhirBaseUrl == "https://api-satusehat-stg.dto.kemkes.go.id/fhir-r4/v1"
PatientQuery == "/Patient?identifier=https://fhir.kemkes.go.id/id/nik|"
PractitionerQuery == "/Practitioner?identifier=https://fhir.kemkes.go.id/id/nik|"

Request(m, u, b, f) == [method |-> m, url |-> u, bearer |-> b, form |-> f]

Functions == {"get_access_token", "get_patient", "get_practitioner"}

\* A run begins: the script is started with a parsed command line, or one of
\* the functions is called directly with its arguments.
Begin(f) ==
  /\ fileAtStart' = f
  /\ \E e \in {"__main__"} \cup Functions :
       /\ entry' = e
       /\ args' \in (IF e = "__main__" THEN MainArgs ELSE CallArgs(e))
       /\ access_token' \in (IF e \in {"get_patient", "get_practitioner"}
                             THEN {NoneStr, <<>>, <<"a">>} ELSE {NoneStr})
       /\ pc' = e
  /\ events' = <<>>
  /\ requests' = <<>>
  /\ response' = NoResponse
  /\ ret' = Null
  /\ exc' = NoExc
  /\ out' = <<>>
  /\ exitCode' = 0

\* Where a function's caller continues: the dispatcher's try block, or the
\* end of a direct call.
Return == IF entry = "__main__" THEN "returned" ELSE "done"
Raised == IF entry = "__main__" THEN "raised" ELSE "done"

\* The exception a failed network exchange raises; its text names the URL.
ConnectionError(url) == Raise("ConnectionError", <<"Max retries exceeded with url: ">> \o url)
JSONDecodeError == Raise("JSONDecodeError", <<"Expecting value">>)

token_get ==
  /\ pc = "__main__" /\ args.command = "token" /\ args.action = "get"
  /\ events' = Append(events, "open_read")
  /\ out' = Append(out,
       IF file.state = "text" THEN Line("Access token: ", Strip(file.text))
       ELSE IF file.state = "absent"
       THEN Line("Error: access_token.txt not found. Use 'token update' to fetch a new token.", <<>>)
       ELSE Line("Error reading token: ", <<"Is a directory">>))
  /\ pc' = "done"
  /\ exitCode' = 0
  /\ UNCHANGED <<file, fileAtStart, entry, args, access_token, requests, response, ret, exc>>
  /\ UNCHANGED fvars

token_update ==
  /\ pc = "__main__" /\ args.command = "token" /\ args.action = "update"
  /\ IF Falsy(args.client_id) \/ Falsy(args.client_secret)
     THEN /\ out' = Append(out,
                Line("Error: --client-id and --client-secret are required for updating the token.", <<>>))
          /\ exitCode' = 1
          /\ pc' = "done"
     ELSE /\ pc' = "get_access_token"
          /\ UNCHANGED <<out, exitCode>>
  /\ UNCHANGED <<file, fileAtStart, entry, args, access_token, events, requests, response, ret, exc>>
  /\ UNCHANGED fvars

\* A check of the client id alone.
MissingClientId(client_id, client_secret) == Falsy(client_id)

\* `not client_id or not client_secret`
MissingCredentials(client_id, client_secret) == Falsy(client_id) \/ Falsy(client_secret)

get_access_token ==
  /\ pc = "get_access_token"
  /\ IF MissingCredentials(args.client_id, args.client_secret)
     THEN /\ exc' = Raise("ValueError", <<"client_id and client_secret must be provided">>)
          /\ pc' = Raised
     ELSE /\ pc' = "get_access_token_post"
          /\ UNCHANGED exc
  /\ UNCHANGED <<file, fileAtStart, entry, args, access_token, events, requests, response, ret,
                 out, exitCode>>
  /\ UNCHANGED fvars

get_access_token_post ==
  /\ pc = "get_access_token_post"
  /\ LET url == <<TokenBaseUrl, "/oauth2/v1/accesstoken?grant_type=client_credentials">>
     IN /\ requests' = Append(requests,
             Request("POST", url, NoneStr, <<args.client_id, args.client_secret>>))
        /\ events' = Append(events, "http")
        /\ \/ /\ response' = NoResponse
              /\ exc' = ConnectionError(url)
              /\ pc' = Raised
              /\ UNCHANGED ret
           \/ \E body \in TokenBodies :
                /\ response' = Response(200, <<>>, TRUE, body)
                /\ ret' = body
                /\ pc' = Return
                /\ UNCHANGED exc
           \/ /\ response' = Response(200, <<"x">>, FALSE, Null)
              /\ exc' = JSONDecodeError
              /\ pc' = Raised
              /\ UNCHANGED ret
           \/ \E st \in ErrorStatuses, t \in Texts :
                /\ response' = Response(st, t, FALSE, Null)
                /\ exc' = Raise("Exception",
                     <<"Failed to obtain access token: ">> \o IntToStr(st) \o <<" - ">> \o t)
                /\ pc' = Raised
                /\ UNCHANGED ret
  /\ UNCHANGED <<file, fileAtStart, entry, args, access_token, out, exitCode>>
  /\ UNCHANGED fvars

\* open('access_token.txt', 'a'): what is there is kept and written after.
OpenForAppend(f) == IF f.state = "text" THEN f ELSE Text(<<>>)

\* open('access_token.txt', 'w') on a file that can be opened: the file is
\* created if absent and emptied if present.
OpenForWrite(f) == Text(<<>>)

\* print the payload, then open('access_token.txt', 'w'): the file is
\* created or truncated before the payload is looked into.
token_update_open ==
  /\ pc = "returned" /\ args.command = "token"
  /\ events' = Append(events, "open_write")
  /\ IF file.state = "directory"
     THEN /\ out' = out \o <<Line("Access token obtained: ", ret),
                             Line("Error: ", <<"Is a directory">>)>>
          /\ pc' = "done"
          /\ UNCHANGED file
     ELSE /\ out' = Append(out, Line("Access token obtained: ", ret))
          /\ file' = OpenForWrite(file)
          /\ pc' = "token_update_write"
  /\ exitCode' = 0
  /\ UNCHANGED <<fileAtStart, entry, args, access_token, requests, response, ret, exc>>
  /\ UNCHANGED fvars

\* f.write(token_data['access_token']) inside the with block, then the
\* confirmation; a failed lookup or write is printed by the except clause.
token_update_write ==
  /\ pc = "token_update_write"
  /\ LET tok == GetKey(ret, "access_token")
     IN IF tok.exc.type # "none"
        THEN /\ out' = Append(out, Line("Error: ", tok.exc.msg))
             /\ UNCHANGED <<file, events>>
        ELSE IF tok.val.kind # "str"
        THEN /\ out' = Append(out, Line("Error: ", <<"write() argument must be str">>))
             /\ UNCHANGED <<file, events>>
        ELSE /\ file' = Text(file.text \o tok.val.val)
             /\ events' = Append(events, "write")
             /\ out' = Append(out, Line("Access token saved to access_token.txt", <<>>))
  /\ pc' = "done"
  /\ exitCode' = 0
  /\ UNCHANGED <<fileAtStart, entry, args, access_token, requests, response, ret, exc>>
  /\ UNCHANGED fvars

token_update_except ==
  /\ pc = "raised" /\ args.command = "token"
  /\ out' = Append(out, Line("Error: ", exc.msg))
  /\ pc' = "done"
  /\ exitCode' = 0
  /\ UNCHANGED <<file, fileAtStart, entry, args, access_token, events, requests, response, ret, exc>>
  /\ UNCHANGED fvars

\* The token file is read at the start of a patient or practitioner run.
ReadToken(next) ==
  /\ events' = Append(events, "open_read")
  /\ IF file.state = "text"
     THEN /\ access_token' = Strip(file.text)
          /\ pc' = next
          /\ UNCHANGED <<out, exitCode>>
     ELSE /\ out' = Append(out,
                IF file.state = "absent"
                THEN Line("Error: access_token.txt not found. Use 'token update' to fetch a new token first.", <<>>)
                ELSE Line("Error reading token: ", <<"Is a directory">>))
          /\ exitCode' = 1
          /\ pc' = "done"
          /\ UNCHANGED access_token
  /\ UNCHANGED <<file, fileAtStart, entry, args, requests, response, ret, exc>>

patient_read_token ==
  /\ pc = "__main__" /\ args.command = "patient"
  /\ ReadToken("get_patient")
  /\ UNCHANGED fvars

practitioner_read_token ==
  /\ pc = "__main__" /\ args.command = "practitioner"
  /\ ReadToken("get_practitioner")
  /\ UNCHANGED fvars

\* `if not access_token: raise ValueError` at the head of both fetchers.
ValidateToken(next) ==
  /\ IF Falsy(access_token)
     THEN /\ exc' = Raise("ValueError", <<"Access token must be provided">>)
          /\ pc' = Raised
     ELSE /\ pc' = next
          /\ UNCHANGED exc
  /\ UNCHANGED <<file, fileAtStart, entry, args, access_token, events, requests, response, ret,
                 out, exitCode>>

get_patient ==
  /\ pc = "get_patient"
  /\ ValidateToken("get_patient_request")
  /\ UNCHANGED fvars

get_practitioner ==
  /\ pc = "get_practitioner"
  /\ ValidateToken("get_practitioner_request")
  /\ UNCHANGED fvars

\* Patient(**patient_data['entry'][0]['resource']) with KeyError and
\* IndexError turned into the parse failure; other exceptions pass through.
ParsePatient(patient_data) ==
  LET e == GetKey(patient_data, "entry")
      first == GetIndex(e.val, 0)
      resource == GetKey(first.val, "resource")
      patient == Patient(resource.val)
      failure == IF e.exc.type # "none" THEN e.exc
                 ELSE IF first.exc.type # "none" THEN first.exc
                 ELSE IF resource.exc.type # "none" THEN resource.exc
                 ELSE patient.exc
  IN  IF failure.type = "none" THEN patient
      ELSE IF failure.type \in {"KeyError", "IndexError"}
      THEN Failed("Exception", <<"Failed to parse patient data: ">> \o failure.msg)
      ELSE [exc |-> failure, val |-> Null]

get_patient_request ==
  /\ pc = "get_patient_request"
  /\ LET url == <<FhirBaseUrl, PatientQuery>> \o args.nik
     IN /\ requests' = Append(requests, Request("GET", url, access_token, <<>>))
        /\ events' = Append(events, "http")
        /\ \/ /\ response' = NoResponse
              /\ exc' = ConnectionError(url)
              /\ pc' = Raised
              /\ UNCHANGED ret
           \/ \E body \in ResourceBodies :
                /\ response' = Response(200, <<>>, TRUE, body)
                /\ ret' = ParsePatient(body).val
                /\ exc' = ParsePatient(body).exc
                /\ pc' = IF ParsePatient(body).exc.type = "none" THEN Return ELSE Raised
           \/ /\ response' = Response(200, <<"x">>, FALSE, Null)
              /\ exc' = JSONDecodeError
              /\ pc' = Raised
              /\ UNCHANGED ret
           \/ \E st \in ErrorStatuses, t \in Texts :
                /\ response' = Response(st, t, FALSE, Null)
                /\ exc' = Raise("Exception",
                     <<"Failed to retrieve patient data: ">> \o IntToStr(st) \o <<" - ">> \o t)
                /\ pc' = Raised
                /\ UNCHANGED ret
  /\ UNCHANGED <<file, fileAtStart, entry, args, access_token, out, exitCode>>
  /\ UNCHANGED fvars

get_practitioner_request ==
  /\ pc = "get_practitioner_request"
  /\ LET url == <<FhirBaseUrl, PractitionerQuery>> \o args.nik
     IN /\ requests' = Append(requests, Request("GET", url, access_token, <<>>))
        /\ events' = Append(events, "http")
        /\ \/ /\ response' = NoResponse
              /\ exc' = ConnectionError(url)
              /\ pc' = Raised
              /\ UNCHANGED ret
           \/ \E body \in ResourceBodies :
                /\ response' = Response(200, <<>>, TRUE, body)
                /\ ret' = body
                /\ pc' = Return
                /\ UNCHANGED exc
           \/ /\ response' = Response(200, <<"x">>, FALSE, Null)
              /\ exc' = JSONDecodeError
              /\ pc' = Raised
              /\ UNCHANGED ret
           \/ \E st \in ErrorStatuses, t \in Texts :
                /\ response' = Response(st, t, FALSE, Null)
                /\ exc' = Raise("Exception",
                     <<"Failed to retrieve practitioner data: ">> \o IntToStr(st) \o <<" - ">> \o t)
                /\ pc' = Raised
                /\ UNCHANGED ret
  /\ UNCHANGED <<file, fileAtStart, entry, args, access_token, out, exitCode>>
  /\ UNCHANGED fvars

\* A key list that names 'other' only.
FilteredKeysOtherOnly == {"other"}

\* The keys the dispatcher filters out of what it prints.
FilteredKeys == {"other", "link"}

SuggestRefresh == Line("Token may be expired. Use 'token update' to refresh the token.", <<>>)

\* An except clause that also ends the process with status 1.
PrintFetchErrorAndFail(prefix) ==
  /\ out' = out \o <<Line(prefix, exc.msg)>>
                \o (IF Contains401(exc.msg) THEN <<SuggestRefresh>> ELSE <<>>)
  /\ pc' = "done"
  /\ exitCode' = 1
  /\ UNCHANGED <<file, fileAtStart, entry, args, access_token, events, requests, response, ret, exc>>

\* The except clause of the patient and practitioner handlers.
PrintFetchError(prefix) ==
  /\ out' = out \o <<Line(prefix, exc.msg)>>
                \o (IF Contains401(exc.msg) THEN <<SuggestRefresh>> ELSE <<>>)
  /\ pc' = "done"
  /\ exitCode' = 0
  /\ UNCHANGED <<file, fileAtStart, entry, args, access_token, events, requests, response, ret, exc>>

patient_print ==
  /\ pc = "returned" /\ args.command = "patient"
  /\ \E exclude_none \in BOOLEAN :
       out' = Append(out, Line("json", filter_response(model_dump(ret, exclude_none), FilteredKeys)))
  /\ pc' = "done"
  /\ exitCode' = 0
  /\ UNCHANGED <<file, fileAtStart, entry, args, access_token, events, requests, response, ret, exc>>
  /\ UNCHANGED fvars

patient_except ==
  /\ pc = "raised" /\ args.command = "patient"
  /\ PrintFetchError("Error retrieving patient data: ")
  /\ UNCHANGED fvars

practitioner_print ==
  /\ pc = "returned" /\ args.command = "practitioner"
  /\ out' = Append(out, Line("json", filter_response(ret, FilteredKeys)))
  /\ pc' = "done"
  /\ exitCode' = 0
  /\ UNCHANGED <<file, fileAtStart, entry, args, access_token, events, requests, response, ret, exc>>
  /\ UNCHANGED fvars

practitioner_except ==
  /\ pc = "raised" /\ args.command = "practitioner"
  /\ PrintFetchError("Error retrieving practitioner data: ")
  /\ UNCHANGED fvars

\* No subcommand given: none of the dispatcher's branches is taken.
no_command ==
  /\ pc = "__main__" /\ args.command = "none"
  /\ pc' = "done"
  /\ exitCode' = 0
  /\ UNCHANGED <<file, fileAtStart, entry, args, access_token, events, requests, response, ret,
                 exc, out>>
  /\ UNCHANGED fvars

\* The next run starts on the token file the previous one left.
NewRun ==
  /\ pc = "done"
  /\ Begin(file)
  /\ UNCHANGED file
  /\ UNCHANGED fvars

FilterIdle ==
  /\ data = Null /\ keys_to_remove = {} /\ result = Null /\ result2 = Null /\ fstage = "idle"

Init ==
  /\ file \in FileStates
  /\ fileAtStart = file
  /\ entry = "__main__"
  /\ args \in MainArgs
  /\ access_token = NoneStr
  /\ pc = "__main__"
  /\ events = <<>>
  /\ requests = <<>>
  /\ response = NoResponse
  /\ ret = Null
  /\ exc = NoExc
  /\ out = <<>>
  /\ exitCode = 0
  /\ FilterIdle

Next ==
  \/ token_get
  \/ token_update
  \/ get_access_token
  \/ get_access_token_post
  \/ token_update_open
  \/ token_update_write
  \/ token_update_except
  \/ patient_read_token
  \/ practitioner_read_token
  \/ get_patient
  \/ get_practitioner
  \/ get_patient_request
  \/ get_practitioner_request
  \/ patient_print
  \/ patient_except
  \/ practitioner_print
  \/ practitioner_except
  \/ no_command
  \/ NewRun

Spec == Init /\ [][Next]_vars

(* ---------------------------------------------------------------------- *)
(* filter_response applied to every bounded value and key set.             *)
(* ---------------------------------------------------------------------- *)
CliIdle ==
  /\ file = Absent /\ fileAtStart = Absent /\ entry = "__main__"
  /\ args = [command |-> "none", action |-> "", client_id |-> NoneStr,
             client_secret |-> NoneStr, nik |-> NoneStr]
  /\ access_token = NoneStr /\ pc = "idle" /\ events = <<>> /\ requests = <<>>
  /\ response = NoResponse /\ ret = Null /\ exc = NoExc /\ out = <<>> /\ exitCode = 0

FilterInit ==
  /\ data \in Values
  /\ keys_to_remove \in SUBSET Keys
  /\ result = Null
  /\ result2 = Null
  /\ fstage = "input"
  /\ CliIdle

ApplyFilter ==
  /\ fstage = "input"
  /\ result' = filter_response(data, keys_to_remove)
  /\ fstage' = "once"
  /\ UNCHANGED <<data, keys_to_remove, result2, clivars>>

ApplyFilterAgain ==
  /\ fstage = "once"
  /\ result2' = filter_response(result, keys_to_remove)
  /\ fstage' = "twice"
  /\ UNCHANGED <<data, keys_to_remove, result, clivars>>

FilterNext == ApplyFilter \/ ApplyFilterAgain

SpecFilter == FilterInit /\ [][FilterNext]_vars

RECURSIVE NoKeyIn(_, _)
NoKeyIn(v, K) ==
  IF v.kind = "dict" THEN
    \A i \in 1..Len(v.val) : v.val[i].key \notin K /\ NoKeyIn(v.val[i].value, K)
  ELSE IF v.kind = "list" THEN
    \A i \in 1..Len(v.val) : NoKeyIn(v.val[i], K)
  ELSE TRUE

KeysOf(items) == [i \in 1..Len(items) |-> items[i].key]

\* y is x with the keys of K dropped from every mapping and nothing else changed.
RECURSIVE Kept(_, _, _)
Kept(x, y, K) ==
  IF x.kind = "dict" THEN
    /\ y.kind = "dict"
    /\ KeysOf(y.val) = SelectSeq(KeysOf(x.val), LAMBDA k : k \notin K)
    /\ \A i \in 1..Len(x.val) : \A j \in 1..Len(y.val) :
         x.val[i].key = y.val[j].key => Kept(x.val[i].value, y.val[j].value, K)
  ELSE IF x.kind = "list" THEN
    /\ y.kind = "list"
    /\ Len(y.val) = Len(x.val)
    /\ \A i \in 1..Len(x.val) : Kept(x.val[i], y.val[i], K)
  ELSE y = x

\* C1: the filtered value has no key of keys_to_remove at any depth and keeps
\* every other key in order, every sequence's length and order, every scalar.
C1_FilterRemovesAndKeeps ==
  fstage \in {"once", "twice"} =>
    NoKeyIn(result, keys_to_remove) /\ Kept(data, result, keys_to_remove)

\* C2: filtering the filtered value again with the same keys changes nothing.
C2_FilterIdempotent ==
  fstage = "twice" => result2 = result

\* Witness of C1: a removable key two levels down, inside a sequence, is gone.
C1_Witness ==
  /\ fstage = "once"
  /\ keys_to_remove = {"link"}
  /\ data = Dict(<<Entry("id", List(<<Dict(<<Entry("link", Str(<<"link">>))>>)>>))>>)
  /\ result = Dict(<<Entry("id", List(<<Dict(<<>>)>>))>>)

\* Witness of C2: a second pass over a value the first pass changed.
C2_Witness ==
  /\ fstage = "twice"
  /\ keys_to_remove = {"other", "link"}
  /\ data = Dict(<<Entry("other", Dict(<<>>)), Entry("link", Dict(<<>>)), Entry("id", Dict(<<>>))>>)
  /\ result2 = Dict(<<Entry("id", Dict(<<>>))>>)

(* ---------------------------------------------------------------------- *)
(* Properties of the runs.                                                 *)
(* ---------------------------------------------------------------------- *)
IsMain(c) == entry = "__main__" /\ args.command = c
IsUpdate == IsMain("token") /\ args.action = "update"
IsFetchRun == IsMain("patient") \/ IsMain("practitioner")

Printed(line) == InSeq(line, out)
PrintedText(t) == \E i \in 1..Len(out) : out[i].text = t

\* The token endpoint answered 200 with a payload holding an access_token.
TokenGranted ==
  /\ response.status_code = 200 /\ response.json_ok
  /\ GetKey(response.json, "access_token").exc.type = "none"

\* C3: after a token update whose endpoint answered 200 with an access_token,
\* the token file holds exactly that value, whether it was absent, empty or
\* held an older token before.
C3_UpdateSavesToken ==
  (pc = "done" /\ IsUpdate /\ TokenGranted /\ fileAtStart.state \in {"absent", "text"})
    => file = Text(GetKey(response.json, "access_token").val.val)

\* Witness of C3: an older token replaced by a different, shorter one.
C3_Witness ==
  /\ pc = "done" /\ IsUpdate /\ TokenGranted
  /\ fileAtStart = Text(<<"a", "b">>)
  /\ file = Text(<<"b">>)

\* The function f has been called and has raised or returned.
Left(f) ==
  \/ entry = f /\ pc = "done"
  \/ /\ entry = "__main__" /\ pc \in {"raised", "returned"}
     /\ args.command = (IF f = "get_access_token" THEN "token"
                        ELSE IF f = "get_patient" THEN "patient" ELSE "practitioner")

\* C4: a call of get_access_token without a client id or secret, and a call
\* of get_patient or get_practitioner without a token, ends in the
\* invalid-argument error, and no HTTP request has been issued when it does.
C4_ValidationBeforeNetwork ==
  /\ (Left("get_access_token") /\ (Falsy(args.client_id) \/ Falsy(args.client_secret)))
       => exc.type = "ValueError"
  /\ ((Left("get_patient") \/ Left("get_practitioner")) /\ Falsy(access_token))
       => exc.type = "ValueError"
  /\ exc.type = "ValueError" => (requests = <<>> /\ ~InSeq("http", events))

\* Witness of C4: get_access_token called with a client id and an empty secret.
C4_Witness ==
  /\ Left("get_access_token")
  /\ args.client_id = <<"c">> /\ args.client_secret = <<>>
  /\ exc.type = "ValueError" /\ requests = <<>>

IsParseError(e) == e.type = "Exception" /\ Head(e.msg) = "Failed to parse patient data: "

\* The `entry` of the decoded body, and whether it is a sequence with a first element.
EntryOf(body) == GetKey(body, "entry")
HasFirstEntry(body) ==
  /\ EntryOf(body).exc.type = "none"
  /\ EntryOf(body).val.kind = "list"
  /\ Len(EntryOf(body).val.val) >= 1
FirstResource(body) == GetKey(GetIndex(EntryOf(body).val, 0).val, "resource").val

\* C5: on a 200 answer with a bundle, get_patient returns only a record built
\* from the first entry's resource, and fails with the parse error, returning
\* nothing, when entry is missing, empty or not a sequence of entries.
C5_FirstEntryOrParseError ==
  (Left("get_patient") /\ response.status_code = 200 /\ response.json_ok
   /\ response.json.kind = "dict") =>
    /\ exc.type = "none" =>
         (HasFirstEntry(response.json) /\ ret = Patient(FirstResource(response.json)).val)
    /\ ~HasFirstEntry(response.json) => (IsParseError(exc) /\ ret = Null)

FetchPrefix == IF args.command = "patient" THEN "Error retrieving patient data: "
               ELSE "Error retrieving practitioner data: "
FailedPrefix == IF args.command = "patient" THEN "Failed to retrieve patient data: "
                ELSE "Failed to retrieve practitioner data: "

\* C6: when the resource endpoint answers 401 in a patient or practitioner
\* run, the fetcher raises an error carrying 401 and the run prints the error
\* message followed by the suggestion to use 'token update'.
C6_RefreshSuggestedOn401 ==
  (IsFetchRun /\ response.status_code = 401) =>
    /\ pc \in {"raised", "done"}
    /\ exc = Raise("Exception", <<FailedPrefix, "4", "0", "1", " - ">> \o response.text)
    /\ pc = "done" => out = <<Line(FetchPrefix, exc.msg), SuggestRefresh>>

\* Witness of C6: a finished practitioner run whose endpoint answered 401.
C6_Witness ==
  /\ IsMain("practitioner") /\ pc = "done"
  /\ response.status_code = 401 /\ response.text = <<"x">>
  /\ out[Len(out)] = SuggestRefresh

Succeeded == IsFetchRun /\ pc = "done" /\ PrintedText("json")
PrintedJson == out[Len(out)].arg

ReadBeforeRequest ==
  IsFetchRun =>
    /\ InSeq("http", events) => events[1] = "open_read"
    /\ (pc = "done" /\ fileAtStart.state = "absent") =>
         /\ exitCode # 0
         /\ requests = <<>>
         /\ out = <<Line("Error: access_token.txt not found. Use 'token update' to fetch a new token first.", <<>>)>>

\* C8 as stated: the token file is read before any request, an absent file
\* ends the run with a non-zero status, guidance and no request, and a
\* successful run prints the response tree without 'other' and 'link'.
C8_PrintsFilteredResponse ==
  /\ ReadBeforeRequest
  /\ Succeeded =>
       /\ NoKeyIn(PrintedJson, {"other", "link"})
       /\ Kept(response.json, PrintedJson, {"other", "link"})

\* C8 amended: as above, where a practitioner run prints the response tree
\* and a patient run prints the dump of the Patient record built from the
\* first entry's resource, both without 'other' and 'link'.
C8_PrintsFilteredResult ==
  /\ ReadBeforeRequest
  /\ Succeeded =>
       /\ NoKeyIn(PrintedJson, {"other", "link"})
       /\ IsMain("practitioner") => Kept(response.json, PrintedJson, {"other", "link"})
       /\ IsMain("patient") =>
            \E exclude_none \in BOOLEAN :
              Kept(model_dump(Patient(FirstResource(response.json)).val, exclude_none),
                   PrintedJson, {"other", "link"})

\* Witness of C8: a patient run that printed the first of two patients.
C8_Witness ==
  /\ IsMain("patient") /\ Succeeded
  /\ response.json = BundleOf(List(<<Wrap(Res1), Wrap(Res2)>>))
  /\ GetKey(PrintedJson, "id").val = Str(<<"1">>)
  /\ GetKey(PrintedJson, "link").exc.type = "KeyError"

\* A token update that ended in an error.
UpdateFailed ==
  /\ IsUpdate /\ pc = "done"
  /\ \/ Falsy(args.client_id) \/ Falsy(args.client_secret)
     \/ response.status_code \in ErrorStatuses
     \/ response.status_code = 200 /\ response.json_ok /\ response.json.kind = "dict"
        /\ GetKey(response.json, "access_token").exc.type # "none"

\* C9: a token update that ends in an error leaves the token file as it was.
C9_FailedUpdateKeepsFile ==
  UpdateFailed => file = fileAtStart

\* C10: the refresh suggestion is printed only when the resource endpoint
\* answered 401.
C10_SuggestionOnlyOn401 ==
  (IsFetchRun /\ Printed(SuggestRefresh)) => response.status_code = 401
====
